---- MODULE Spec2Model ----
(***************************************************************************)
(* A model of futures-concurrency's bounded for-each consumer              *)
(* (concurrent_stream/for_each.rs), its passthrough decorator              *)
(* (concurrent_stream/passthrough.rs) and the vector merge combinator      *)
(* (stream/merge/vec.rs).                                                  *)
(***************************************************************************)
EXTENDS Integers, Sequences, FiniteSets, TLC

\* ---------------------------------------------------------------- bounds
\* number of send calls the driver makes
MaxItems == 4
\* largest finite concurrency limit given to ForEachConsumer::new
MaxLimit == 2
\* number of progress calls the driver makes
MaxProgress == 1

\* number of ForEachFut polled directly, and of polls of each
MaxFuts == 2
MaxPolls == 3

\* number of sources of a Merge, and of items of a source
MaxSources == 3
MaxLen == 2

\* usize::MAX, the limit of an unbounded consumer; the largest integer TLC
\* represents stands for it, arithmetic on it wraps as usize does
UsizeMax == 2147483647

\* Option<T>
None == <<>>
Some(x) == <<x>>

\* the value the k-th item-producing computation resolves to
ItemValue(k) == k

VARIABLES
    \* ForEachConsumer
    limit,      \* self.limit
    count,      \* self.count, the shared AtomicUsize
    group,      \* self.group: key -> ForEachFut, the futures the group holds
    \* the driver and the async fn it is awaiting
    pc,         \* where the current consumer call stands
    loaded,     \* Some(what send's load read), from the load that leaves the
                \* loop until the fetch_add
    items,      \* the item values passed to send, in call order
    progressed, \* number of progress calls made
    \* observations
    admitted,   \* keys in the order insert_pinned received them
    calls,      \* calls[k]: how often the closure f was invoked for item k
    counter,    \* the shared counter the closure of the tests adds to
    inner,      \* calls and returns seen at the inner consumer
    outer,      \* calls and returns seen by the caller of PassthroughConsumer
    \* ForEachFut polled directly, outside a group
    futs,       \* key -> ForEachFut
    polled,     \* polled[k]: number of times poll was called on futs[k]
    last,       \* last[k]: what the latest poll of futs[k] returned
    \* Merge
    streams,    \* self.streams: Vec<Fuse<S>>
    sources,    \* the items each source held when the Merge was built
    got,        \* got[i]: the items poll_next returned that came from source i
    trail,      \* indices whose underlying source the latest poll_next probed
    mres        \* Some(what the latest poll_next returned)

futVars == <<futs, polled, last>>
mergeVars == <<streams, sources, got, trail, mres>>
vars == <<limit, count, group, pc, loaded, items, progressed, admitted, calls,
          counter,
          inner, outer, futVars, mergeVars>>

\* ------------------------------------------------------- atomic counter
\* AtomicUsize::fetch_add(1): wrapping
FetchAdd(c) == IF c = UsizeMax THEN 0 ELSE c + 1

FetchSubNoRelease(c) == c

FetchSubTwice(c) == IF c < 2 THEN UsizeMax - (1 - c) ELSE c - 2

\* AtomicUsize::fetch_sub(1): wrapping
FetchSub(c) == IF c = 0 THEN UsizeMax ELSE c - 1

\* ------------------------------------------------------------ ForEachFut
\* A computation is a record [resolved, val]: whether polling it returns
\* Ready, and the value it resolves to (for fut_b: the value the closure
\* captured and adds to the shared counter when it runs).
ForEachFutNew(fut_t) ==
    [done |-> FALSE, fut_t |-> Some(fut_t), fut_b |-> None]

\* the closure of the tests: |n| async move { count.fetch_add(n) }
\* imm: whether the computation it returns is ready at its first poll
Closure(t, imm) == [resolved |-> imm, val |-> t]

PollResult(this, cnt, poll, f, ran) ==
    [this |-> this, count |-> cnt, poll |-> poll, f |-> f, ran |-> ran]

ForEachFutPollNoDoneCheck(this, cnt, imm) ==
    LET tSome == this.fut_t # None
        tReady == tSome /\ this.fut_t[1].resolved
        s1 == IF tReady
              THEN [this EXCEPT !.fut_t = None,
                                !.fut_b = Some(Closure(this.fut_t[1].val, imm))]
              ELSE this
        f == IF tReady THEN 1 ELSE 0
    IN  IF tSome /\ ~tReady
        THEN PollResult(this, cnt, "Pending", 0, 0)
        ELSE IF s1.fut_b # None
             THEN IF s1.fut_b[1].resolved
                  THEN PollResult([s1 EXCEPT !.done = TRUE], FetchSub(cnt),
                                  "Ready", f, s1.fut_b[1].val)
                  ELSE PollResult(s1, cnt, "Pending", f, 0)
             ELSE PollResult(s1, cnt, "Unreachable", f, 0)

ForEachFutPollNoReadyItem(this, cnt, imm) ==
    IF this.done
    THEN PollResult(this, cnt, "Panic", 0, 0)
    ELSE
    LET tSome == this.fut_t # None
        s1 == IF tSome
              THEN [this EXCEPT !.fut_t = None,
                                !.fut_b = Some(Closure(this.fut_t[1].val, imm))]
              ELSE this
        f == IF tSome THEN 1 ELSE 0
    IN  IF s1.fut_b[1].resolved
        THEN PollResult([s1 EXCEPT !.done = TRUE], FetchSub(cnt), "Ready", f,
                        s1.fut_b[1].val)
        ELSE PollResult(s1, cnt, "Pending", f, 0)

ForEachFutPollNoTransform(this, cnt, imm) ==
    IF this.done
    THEN PollResult(this, cnt, "Panic", 0, 0)
    ELSE IF this.fut_t # None /\ this.fut_t[1].resolved
         THEN PollResult([this EXCEPT !.fut_t = None, !.done = TRUE],
                         FetchSub(cnt), "Ready", 0, 0)
         ELSE PollResult(this, cnt, "Pending", 0, 0)

\* ForEachFut::poll. Returns the future after the poll, the counter after
\* it, what the poll returned ("Pending", "Ready", or the panics "Panic"
\* and "Unreachable"), how often it invoked f, and what the closure's
\* computation added to the shared counter.
ForEachFutPoll(this, cnt, imm) ==
    IF this.done
    THEN PollResult(this, cnt, "Panic", 0, 0)
    ELSE
    LET tSome == this.fut_t # None
        tReady == tSome /\ this.fut_t[1].resolved
        s1 == IF tReady
              THEN [this EXCEPT !.fut_t = None,
                                !.fut_b = Some(Closure(this.fut_t[1].val, imm))]
              ELSE this
        f == IF tReady THEN 1 ELSE 0
    IN  IF tSome /\ ~tReady
        THEN PollResult(this, cnt, "Pending", 0, 0)
        ELSE IF s1.fut_b # None
             THEN IF s1.fut_b[1].resolved
                  THEN PollResult([s1 EXCEPT !.done = TRUE], FetchSub(cnt),
                                  "Ready", f, s1.fut_b[1].val)
                  ELSE PollResult(s1, cnt, "Pending", f, 0)
             ELSE PollResult(s1, cnt, "Unreachable", f, 0)

\* the computation the future currently waits on has resolved, so its waker
\* has fired and the group polls it
Woken(this) ==
    \/ this.fut_t # None /\ this.fut_t[1].resolved
    \/ this.fut_t = None /\ this.fut_b # None /\ this.fut_b[1].resolved

\* ----------------------------------------------------------- FutureGroup
\* FutureGroup::new
FutureGroupNew == <<>>

\* FutureGroup::insert_pinned
InsertPinned(g, key, fut) == [k \in DOMAIN g \cup {key} |->
                                 IF k = key THEN fut ELSE g[k]]

\* the group drops a future when its poll returns Ready
Remove(g, key) == [k \in DOMAIN g \ {key} |-> g[k]]

IsEmpty(g) == DOMAIN g = {}

\* -------------------------------------------------------- ForEachConsumer
\* ForEachConsumer::new(limit: Option<NonZeroUsize>, f)
ForEachConsumerNew(lim) ==
    [limit |-> IF lim = None THEN UsizeMax ELSE lim[1],
     count |-> 0, group |-> FutureGroupNew]

Limits == {None} \cup {Some(n) : n \in 1..MaxLimit}

AwaitPcs == {"send_await", "progress_await", "finish_await"}

\* an event at a consumer's interface
Call(op, arg) == [kind |-> "call", op |-> op, arg |-> arg, ret |-> ""]
Ret(op, ret) == [kind |-> "ret", op |-> op, arg |-> 0, ret |-> ret]

\* ---------------------------------------------------- PassthroughConsumer
\* what PassthroughConsumer hands to its inner consumer
PassthroughCall(op, arg) == Call(op, arg)

\* what PassthroughConsumer returns to its caller, given what the inner
\* consumer returned: send and progress end in `;` and return unit,
\* finish returns the inner Output
PassthroughRet(op, ret) ==
    IF op = "finish" THEN Ret(op, ret) ELSE Ret(op, "Unit")

Returned(op, ret) ==
    /\ inner' = Append(inner, Ret(op, ret))
    /\ outer' = Append(outer, PassthroughRet(op, ret))

Called(op, arg) ==
    /\ outer' = Append(outer, Call(op, arg))
    /\ inner' = Append(inner, PassthroughCall(op, arg))

Init ==
    /\ \E lim \in Limits :
          LET c == ForEachConsumerNew(lim)
          IN  limit = c.limit /\ count = c.count /\ group = c.group
    /\ pc = "idle"
    /\ loaded = None
    /\ items = <<>>
    /\ progressed = 0
    /\ admitted = <<>>
    /\ calls = [k \in 1..MaxItems |-> 0]
    /\ counter = 0
    /\ inner = <<>>
    /\ outer = <<>>
    /\ futs = <<>> /\ polled = <<>> /\ last = <<>>
    /\ streams = <<>> /\ sources = <<>> /\ got = <<>> /\ trail = <<>>
    /\ mres = None

\* the driver calls send(future) through the passthrough
CallSend ==
    /\ pc = "idle"
    /\ Len(items) < MaxItems
    /\ items' = Append(items, ItemValue(Len(items) + 1))
    /\ pc' = "send_loop"
    /\ Called("send", ItemValue(Len(items) + 1))
    /\ UNCHANGED <<futVars, mergeVars>>
    /\ UNCHANGED <<limit, loaded, count, group, progressed, admitted, calls, counter>>

SendLoadOffByOne ==
    /\ pc = "send_loop"
    /\ pc' = IF count > limit THEN "send_await" ELSE "send_add"
    /\ loaded' = IF count > limit THEN None ELSE Some(count)
    /\ UNCHANGED <<futVars, mergeVars>>
    /\ UNCHANGED <<limit, count, group, items, progressed, admitted, calls,
                   counter, inner, outer>>

SendLoadDropAtLimit ==
    /\ pc = "send_loop"
    /\ IF count >= limit
       THEN pc' = "idle" /\ Returned("send", "Continue")
       ELSE pc' = "send_add" /\ UNCHANGED <<inner, outer>>
    /\ loaded' = IF count >= limit THEN None ELSE Some(count)
    /\ UNCHANGED <<futVars, mergeVars>>
    /\ UNCHANGED <<limit, count, group, items, progressed, admitted, calls,
                   counter>>

\* send, line 63: while self.count.load() >= self.limit
SendLoad ==
    /\ pc = "send_loop"
    /\ pc' = IF count >= limit THEN "send_await" ELSE "send_add"
    /\ loaded' = IF count >= limit THEN None ELSE Some(count)
    /\ UNCHANGED <<futVars, mergeVars>>
    /\ UNCHANGED <<limit, count, group, items, progressed, admitted, calls,
                   counter, inner, outer>>

\* send, line 68: self.count.fetch_add(1)
SendAdd ==
    /\ pc = "send_add"
    /\ count' = FetchAdd(count)
    /\ pc' = "send_insert"
    /\ loaded' = None
    /\ UNCHANGED <<futVars, mergeVars>>
    /\ UNCHANGED <<limit, group, items, progressed, admitted, calls, counter,
                   inner, outer>>

\* send, lines 69-72: build the ForEachFut, insert it, return Continue
SendInsert ==
    /\ pc = "send_insert"
    /\ LET key == Len(items)
           future == [resolved |-> FALSE, val |-> items[key]]
       IN  /\ group' = InsertPinned(group, key, ForEachFutNew(future))
           /\ admitted' = Append(admitted, key)
    /\ pc' = "idle"
    /\ Returned("send", "Continue")
    /\ UNCHANGED <<futVars, mergeVars>>
    /\ UNCHANGED <<limit, loaded, count, items, progressed, calls, counter>>

\* the driver calls progress() through the passthrough
CallProgress ==
    /\ pc = "idle"
    /\ progressed < MaxProgress
    /\ progressed' = progressed + 1
    /\ pc' = "progress_await"
    /\ Called("progress", 0)
    /\ UNCHANGED <<futVars, mergeVars>>
    /\ UNCHANGED <<limit, loaded, count, group, items, admitted, calls, counter>>

\* the driver calls finish() through the passthrough
CallFinish ==
    /\ pc = "idle"
    /\ pc' = "finish_await"
    /\ Called("finish", 0)
    /\ UNCHANGED <<futVars, mergeVars>>
    /\ UNCHANGED <<limit, loaded, count, group, items, progressed, admitted, calls,
                   counter>>

AfterNextFirstOnly(at, next) ==
    CASE at = "send_await" -> "send_loop"
      [] at = "progress_await" -> IF next = None THEN "idle" ELSE at
      [] at = "finish_await" -> "finished"

AfterNextDrainOne(at, next) ==
    CASE at = "send_await" -> "send_loop"
      [] at = "progress_await" -> "idle"
      [] at = "finish_await" -> IF next = None THEN "finished" ELSE at

AfterNextProgressWaits(at, next) ==
    CASE at = "send_await" -> "send_loop"
      [] at = "progress_await" -> at
      [] at = "finish_await" -> IF next = None THEN "finished" ELSE at

AfterNextSendDrains(at, next) ==
    CASE at = "send_await" -> IF next = None THEN "send_loop" ELSE at
      [] at = "progress_await" -> IF next = None THEN "idle" ELSE at
      [] at = "finish_await" -> IF next = None THEN "finished" ELSE at

\* where the async fn continues after self.group.next().await returned next:
\* send re-tests its loop condition; progress and finish loop on Some and
\* return on None
AfterNext(at, next) ==
    CASE at = "send_await" -> "send_loop"
      [] at = "progress_await" -> IF next = None THEN "idle" ELSE at
      [] at = "finish_await" -> IF next = None THEN "finished" ELSE at

\* the event of the async fn returning, when it does
Resumed(at, to) ==
    CASE at = "progress_await" /\ to = "idle" -> Returned("progress", "Empty")
      [] at = "finish_await" /\ to = "finished" -> Returned("finish", "()")
      [] OTHER -> UNCHANGED <<inner, outer>>

\* self.group.next().await: the group polls a woken future
AwaitNext(key) ==
    /\ pc \in AwaitPcs
    /\ key \in DOMAIN group
    /\ Woken(group[key])
    /\ \E imm \in BOOLEAN :
          LET r == ForEachFutPoll(group[key], count, imm)
              to == IF r.poll = "Ready" THEN AfterNext(pc, Some("()")) ELSE pc
          IN  /\ r.poll \in {"Ready", "Pending"}
              /\ count' = r.count
              /\ calls' = [calls EXCEPT ![key] = @ + r.f]
              /\ counter' = counter + r.ran
              /\ group' = IF r.poll = "Ready"
                          THEN Remove(group, key)
                          ELSE [group EXCEPT ![key] = r.this]
              /\ pc' = to
              /\ Resumed(pc, to)
    /\ UNCHANGED <<futVars, mergeVars>>
    /\ UNCHANGED <<limit, loaded, items, progressed, admitted>>

\* self.group.next().await on an empty group: Ready(None)
AwaitNextNone ==
    /\ pc \in AwaitPcs
    /\ IsEmpty(group)
    /\ LET to == AfterNext(pc, None)
       IN  pc' = to /\ Resumed(pc, to)
    /\ UNCHANGED <<futVars, mergeVars>>
    /\ UNCHANGED <<limit, loaded, count, group, items, progressed, admitted, calls,
                   counter>>

\* the item-producing computation of a future in the group resolves
ItemResolves(key) ==
    /\ key \in DOMAIN group
    /\ group[key].fut_t # None
    /\ ~group[key].fut_t[1].resolved
    /\ group' = [group EXCEPT ![key].fut_t[1].resolved = TRUE]
    /\ UNCHANGED <<futVars, mergeVars>>
    /\ UNCHANGED <<limit, loaded, count, pc, items, progressed, admitted, calls,
                   counter, inner, outer>>

\* the closure's computation of a future in the group resolves
TransformResolves(key) ==
    /\ key \in DOMAIN group
    /\ group[key].fut_b # None
    /\ ~group[key].fut_b[1].resolved
    /\ group' = [group EXCEPT ![key].fut_b[1].resolved = TRUE]
    /\ UNCHANGED <<futVars, mergeVars>>
    /\ UNCHANGED <<limit, loaded, count, pc, items, progressed, admitted, calls,
                   counter, inner, outer>>

Next ==
    \/ CallSend
    \/ SendLoad
    \/ SendAdd
    \/ SendInsert
    \/ CallProgress
    \/ CallFinish
    \/ \E key \in 1..MaxItems : AwaitNext(key)
    \/ AwaitNextNone
    \/ \E key \in 1..MaxItems : ItemResolves(key)
    \/ \E key \in 1..MaxItems : TransformResolves(key)

Spec == Init /\ [][Next]_vars

\* ------------------------------------------- pipelines driven by workers
\* The scheduler may drive the pipelines of the group from other worker
\* threads: a woken pipeline is polled, and the group drops it when it
\* completes, whatever the sender is doing at that moment, between the load
\* and the fetch_add of send included.
WorkerPoll(key) ==
    /\ pc \notin AwaitPcs
    /\ key \in DOMAIN group
    /\ Woken(group[key])
    /\ \E imm \in BOOLEAN :
          LET r == ForEachFutPoll(group[key], count, imm)
          IN  /\ r.poll \in {"Ready", "Pending"}
              /\ count' = r.count
              /\ calls' = [calls EXCEPT ![key] = @ + r.f]
              /\ counter' = counter + r.ran
              /\ group' = IF r.poll = "Ready"
                          THEN Remove(group, key)
                          ELSE [group EXCEPT ![key] = r.this]
    /\ UNCHANGED <<futVars, mergeVars>>
    /\ UNCHANGED <<limit, loaded, pc, items, progressed, admitted, inner, outer>>

NextWorkers ==
    \/ Next
    \/ \E key \in 1..MaxItems : WorkerPoll(key)

SpecWorkers == Init /\ [][NextWorkers]_vars

\* the fairness the executor gives: a woken task is polled, so each step of
\* the async fn being awaited is taken, and every computation resolves
FairSpec ==
    /\ Spec
    /\ WF_vars(SendLoad) /\ WF_vars(SendAdd) /\ WF_vars(SendInsert)
    /\ WF_vars(AwaitNextNone)
    /\ \A key \in 1..MaxItems :
          /\ WF_vars(AwaitNext(key))
          /\ WF_vars(ItemResolves(key))
          /\ WF_vars(TransformResolves(key))

\* ------------------------------------------- ForEachFut polled directly
\* ForEachFut is a Future: any holder may call poll on it, at any time and
\* any number of times. Here up to MaxFuts futures, built as send builds
\* them (one fetch_add each), are polled by hand rather than by a group.
InitFut ==
    /\ \E n \in 1..MaxFuts :
          /\ futs = [k \in 1..n |->
                        ForEachFutNew([resolved |-> FALSE, val |-> ItemValue(k)])]
          /\ count = n
          /\ polled = [k \in 1..n |-> 0]
          /\ last = [k \in 1..n |-> "None"]
    /\ calls = [k \in 1..MaxItems |-> 0]
    /\ counter = 0
    /\ limit = UsizeMax /\ group = FutureGroupNew /\ pc = "idle"
    /\ loaded = None
    /\ items = <<>> /\ progressed = 0 /\ admitted = <<>>
    /\ inner = <<>> /\ outer = <<>>
    /\ streams = <<>> /\ sources = <<>> /\ got = <<>> /\ trail = <<>>
    /\ mres = None

\* one call of ForEachFut::poll on futs[key]
PollFut(key) ==
    /\ key \in DOMAIN futs
    /\ polled[key] < MaxPolls
    /\ \E imm \in BOOLEAN :
          LET r == ForEachFutPoll(futs[key], count, imm)
          IN  /\ futs' = [futs EXCEPT ![key] = r.this]
              /\ count' = r.count
              /\ calls' = [calls EXCEPT ![key] = @ + r.f]
              /\ counter' = counter + r.ran
              /\ last' = [last EXCEPT ![key] = r.poll]
    /\ polled' = [polled EXCEPT ![key] = @ + 1]
    /\ UNCHANGED <<limit, loaded, group, pc, items, progressed, admitted, inner, outer>>
    /\ UNCHANGED mergeVars

\* the item-producing computation of futs[key] resolves
FutItemResolves(key) ==
    /\ key \in DOMAIN futs
    /\ futs[key].fut_t # None
    /\ ~futs[key].fut_t[1].resolved
    /\ futs' = [futs EXCEPT ![key].fut_t[1].resolved = TRUE]
    /\ UNCHANGED <<limit, loaded, count, group, pc, items, progressed, admitted, calls,
                   counter, inner, outer, polled, last>>
    /\ UNCHANGED mergeVars

\* the closure's computation of futs[key] resolves
FutTransformResolves(key) ==
    /\ key \in DOMAIN futs
    /\ ~futs[key].done
    /\ futs[key].fut_b # None
    /\ ~futs[key].fut_b[1].resolved
    /\ futs' = [futs EXCEPT ![key].fut_b[1].resolved = TRUE]
    /\ UNCHANGED <<limit, loaded, count, group, pc, items, progressed, admitted, calls,
                   counter, inner, outer, polled, last>>
    /\ UNCHANGED mergeVars

NextFut ==
    \/ \E key \in 1..MaxFuts : PollFut(key)
    \/ \E key \in 1..MaxFuts : FutItemResolves(key)
    \/ \E key \in 1..MaxFuts : FutTransformResolves(key)

SpecFut == InitFut /\ [][NextFut]_vars

\* ------------------------------------------------------------------ Merge
\* Poll<Option<Item>>
Pending == [ready |-> FALSE, item |-> None]
Ready(item) == [ready |-> TRUE, item |-> item]

\* A source stream: the items it has yet to yield, whether it has reported
\* its end, and whether it is endless (as stream::repeat is: it yields its
\* item again and again). Polled when it is not ready it returns Pending.
SourcePoll(s, rdy) ==
    IF ~rdy THEN [stream |-> s, ret |-> Pending]
    ELSE IF s.items # <<>>
         THEN [stream |-> IF s.endless THEN s ELSE [s EXCEPT !.items = Tail(@)],
               ret |-> Ready(Some(Head(s.items)))]
         ELSE [stream |-> [s EXCEPT !.ended = TRUE], ret |-> Ready(None)]

\* Fuse::new
FuseNew(s) == [stream |-> s, done |-> FALSE]

\* Fuse::poll_next: once the stream has returned None it is not polled again.
\* probe tells whether the underlying stream was polled.
FusePoll(fuse, rdy) ==
    IF fuse.done
    THEN [fuse |-> fuse, ret |-> Ready(None), probe |-> FALSE]
    ELSE LET r == SourcePoll(fuse.stream, rdy)
         IN  [fuse |-> [stream |-> r.stream,
                        done |-> r.ret.ready /\ r.ret.item = None],
              ret |-> r.ret, probe |-> TRUE]

\* Merge::new
MergeNew(srcs) == [i \in DOMAIN srcs |-> FuseNew(srcs[i])]

StreamPollUnfused(elem, rdy) ==
    LET r == SourcePoll(elem.stream, rdy)
    IN  [fuse |-> [elem EXCEPT !.stream = r.stream], ret |-> r.ret,
         probe |-> TRUE]

\* poll_next, lines 64-65: the element of self.streams that is polled is
\* the Fuse
StreamPoll(elem, rdy) == FusePoll(elem, rdy)

\* RandomGenerator::random(n): a number below n
RandomRange(n) == IF n = 0 THEN {0} ELSE 0..(n - 1)

IndexBackward(random, index, len) == ((random + len - index) % len) + 1

\* poll_next, line 63: (random + index).wrapping_rem(self.streams.len()),
\* as an index into a vector that is indexed from 1
Index(random, index, len) == ((random + index) % len) + 1

ResLastWins(res, ret) == IF ret.ready THEN Ready(None) ELSE Pending

\* poll_next, lines 67-68: the result so far after a source that yielded
\* no item returned ret: Ready(None) leaves it, Pending makes it Pending
Res(res, ret) == IF ret.ready THEN res ELSE Pending

ScanResult(strs, ret, tr, from) ==
    [streams |-> strs, ret |-> ret, trail |-> tr, from |-> from]

RECURSIVE ScanNoReturn(_, _, _, _, _, _, _)
ScanNoReturn(strs, random, rdy, i, res, tr, from) ==
    IF i >= Len(strs)
    THEN ScanResult(strs, res, tr, from)
    ELSE LET index == Index(random, i, Len(strs))
             r == StreamPoll(strs[index], index \in rdy)
             strs2 == [strs EXCEPT ![index] = r.fuse]
             tr2 == IF r.probe THEN Append(tr, index) ELSE tr
         IN  IF r.ret.ready /\ r.ret.item # None
             THEN ScanNoReturn(strs2, random, rdy, i + 1, r.ret, tr2, index)
             ELSE IF r.ret.ready
                  THEN ScanNoReturn(strs2, random, rdy, i + 1, res, tr2, from)
                  ELSE ScanNoReturn(strs2, random, rdy, i + 1,
                                    IF res.item # None THEN res ELSE Pending,
                                    tr2, from)

MergePollNextNoReturn(strs, random, rdy) ==
    ScanNoReturn(strs, random, rdy, 0, Ready(None), <<>>, 0)

RECURSIVE Scan(_, _, _, _, _, _)
\* poll_next, lines 62-71: the loop from its i-th iteration on, res being
\* the result so far and tr the sources probed so far. The vector is
\* indexed from 1 here. The next iteration is written as the one element
\* of a set so that the vector is evaluated once per iteration.
Scan(strs, random, rdy, i, res, tr) ==
    IF i >= Len(strs)
    THEN ScanResult(strs, res, tr, 0)
    ELSE LET index == Index(random, i, Len(strs))
             r == StreamPoll(strs[index], index \in rdy)
             strs2 == [strs EXCEPT ![index] = r.fuse]
             tr2 == IF r.probe THEN Append(tr, index) ELSE tr
             res2 == Res(res, r.ret)
         IN  IF r.ret.ready /\ r.ret.item # None
             THEN ScanResult(strs2, r.ret, tr2, index)
             ELSE CHOOSE out \in {Scan(s, random, rdy, i + 1, res2, tr2) :
                                  s \in {strs2}} : TRUE

\* poll_next that always scans from the first source
MergePollNextNoRotation(strs, random, rdy) ==
    Scan(strs, 0, rdy, 0, Ready(None), <<>>)

\* Merge::poll_next with the drawn offset random, the sources in rdy being
\* ready. Returns the streams after the poll, what it returned, the
\* sources probed in order, and the index of the source of the item.
MergePollNext(strs, random, rdy) ==
    Scan(strs, random, rdy, 0, Ready(None), <<>>)

\* A source that holds the items 1..n in this order. Every source of the
\* Merge starts with MaxLen items: a source that starts with fewer behaves
\* as this one does once it has yielded the difference.
SourceOf(n) ==
    [items |-> [k \in 1..n |-> k], ended |-> FALSE, endless |-> FALSE]

\* a source that yields the item 1 for ever
EndlessSource == [items |-> <<1>>, ended |-> FALSE, endless |-> TRUE]

InitMerge ==
    /\ \E n \in 0..MaxSources :
          /\ sources = [i \in 1..n |-> SourceOf(MaxLen).items]
          /\ streams = MergeNew([i \in 1..n |-> SourceOf(MaxLen)])
          /\ got = [i \in 1..n |-> <<>>]
    /\ trail = <<>>
    /\ mres = None
    /\ limit = UsizeMax /\ count = 0 /\ group = FutureGroupNew /\ pc = "idle"
    /\ loaded = None
    /\ items = <<>> /\ progressed = 0 /\ admitted = <<>>
    /\ calls = [k \in 1..MaxItems |-> 0] /\ counter = 0
    /\ inner = <<>> /\ outer = <<>>
    /\ futs = <<>> /\ polled = <<>> /\ last = <<>>

\* one call of Merge::poll_next, with its offset drawn and the sources in
\* rdy ready (whether a source whose Fuse is done is ready is not looked at)
PollNext ==
    /\ \E random \in RandomRange(Len(streams)) :
       \E rdy \in SUBSET {i \in 1..Len(streams) : ~streams[i].done} :
          LET r == MergePollNext(streams, random, rdy)
          IN  /\ streams' = r.streams
              /\ mres' = Some(r.ret)
              /\ trail' = r.trail
              /\ got' = IF r.ret.ready /\ r.ret.item # None
                        THEN [got EXCEPT ![r.from] = Append(@, r.ret.item[1])]
                        ELSE got
    /\ UNCHANGED sources
    /\ UNCHANGED <<limit, loaded, count, group, pc, items, progressed, admitted, calls,
                   counter, inner, outer>>
    /\ UNCHANGED futVars

NextMerge == PollNext

SpecMerge == InitMerge /\ [][NextMerge]_vars

\* ------------------------------------------------- Merge polled for ever
\* The sources are endless or hold MaxLen items, and every source that has
\* not ended is ready at every poll: each competes with all the others.
\* What was returned is not recorded (it grows without bound); the source of
\* the item of the latest poll is the last one probed.
InitMergeLive ==
    /\ \E n \in 1..MaxSources :
       \E endless \in SUBSET (1..n) :
          /\ streams = MergeNew([i \in 1..n |->
                           IF i \in endless THEN EndlessSource
                                             ELSE SourceOf(MaxLen)])
          /\ sources = [i \in 1..n |-> <<>>]
          /\ got = [i \in 1..n |-> <<>>]
    /\ trail = <<>>
    /\ mres = None
    /\ limit = UsizeMax /\ count = 0 /\ group = FutureGroupNew /\ pc = "idle"
    /\ loaded = None
    /\ items = <<>> /\ progressed = 0 /\ admitted = <<>>
    /\ calls = [k \in 1..MaxItems |-> 0] /\ counter = 0
    /\ inner = <<>> /\ outer = <<>>
    /\ futs = <<>> /\ polled = <<>> /\ last = <<>>

\* the sources that have not been seen to end
Live == {i \in 1..Len(streams) : ~streams[i].done}

\* one call of Merge::poll_next that drew the offset random, the sources in
\* rdy being ready
PollNextWith(random, rdy) ==
    /\ random \in RandomRange(Len(streams))
    /\ rdy \subseteq Live
    /\ \E r \in {MergePollNext(streams, random, rdy)} :
           /\ streams' = r.streams
           /\ mres' = Some(r.ret)
           /\ trail' = r.trail
    /\ UNCHANGED <<sources, got>>
    /\ UNCHANGED <<limit, loaded, count, group, pc, items, progressed, admitted, calls,
                   counter, inner, outer>>
    /\ UNCHANGED futVars

NextMergeLive ==
    \E random \in 0..(MaxSources - 1) : PollNextWith(random, Live)

\* a poll that drew the offset of source i while source i was ready
PollDrawn(i) == i \in Live /\ PollNextWith(i - 1, Live)

\* The stream is polled for ever and the draw takes every value again and
\* again: for every source that stays ready, polls that draw its offset
\* keep happening.
SpecMergeLive ==
    /\ InitMergeLive
    /\ [][NextMergeLive]_vars
    /\ \A i \in 1..MaxSources : WF_vars(PollDrawn(i))

\* the source whose item the latest poll_next returned, 0 if it returned none
Winner ==
    IF mres # None /\ mres[1].ready /\ mres[1].item # None
    THEN trail[Len(trail)] ELSE 0

\* ------------------------------------------------------------- properties
InFlight == Cardinality(DOMAIN group)

SendPcs == {"send_loop", "send_await", "send_add", "send_insert"}

RECURSIVE SumOf(_, _)
\* the sum of the values of the items with the keys of sequence ks
SumOf(ks, vals) ==
    IF ks = <<>> THEN 0 ELSE vals[Head(ks)] + SumOf(Tail(ks), vals)

\* C1: neither the counter nor the number of pipelines in the group ever
\* exceeds the limit.
C1_LimitNeverExceeded ==
    /\ count <= limit
    /\ InFlight <= limit

\* a third item was admitted under limit 2 and the consumer is full again
C1_Witness ==
    /\ limit = 2
    /\ Len(admitted) = 3
    /\ count = 2
    /\ InFlight = 2

\* C2: when finish has returned, the group is empty, the closure was invoked
\* exactly once for each admitted item and for no other, and the shared
\* counter holds the sum of the admitted items' values.
C2_FinishComplete ==
    pc = "finished" =>
        /\ IsEmpty(group)
        /\ \A k \in 1..MaxItems :
              calls[k] = IF \E i \in 1..Len(admitted) : admitted[i] = k
                         THEN 1 ELSE 0
        /\ counter = SumOf(admitted, items)

\* as in test concurrency_one: limit 1, two items
C2_Witness ==
    /\ pc = "finished"
    /\ limit = 1
    /\ admitted = <<1, 2>>
    /\ calls[1] = 1 /\ calls[2] = 1
    /\ counter = ItemValue(1) + ItemValue(2)

\* C3: the keys are inserted into the group in the order of the send calls:
\* the k-th insertion is the k-th send's item, and every send that has
\* returned has inserted its item.
C3_AdmissionOrder ==
    /\ \A i \in 1..Len(admitted) : admitted[i] = i
    /\ Len(admitted) = IF pc \in SendPcs THEN Len(items) - 1 ELSE Len(items)

\* the third send waited for a slot, item 2 completed before item 1
C3_Witness ==
    /\ limit = 2
    /\ progressed = 0
    /\ admitted = <<1, 2, 3>>
    /\ DOMAIN group = {1, 3}

Range(seq) == {seq[i] : i \in DOMAIN seq}

\* C4: what poll_next has returned from a source, followed by what the
\* source still holds, is what the source held at first (nothing is lost,
\* duplicated or reordered), and when poll_next reports the end of the
\* stream it has returned every item of every source.
C4_MergeYieldsAll ==
    /\ \A i \in DOMAIN sources :
          got[i] \o streams[i].stream.items = sources[i]
    /\ mres = Some(Ready(None)) => got = sources

\* three sources of two items each merged to the end
C4_Witness ==
    /\ mres = Some(Ready(None))
    /\ Len(sources) = 3
    /\ \A i \in DOMAIN sources : Len(sources[i]) = 2
    /\ got = sources

\* C5: from the poll in which a source reports its end on, its Fuse is
\* done, stays done, and no poll_next probes the source.
C5_NoProbeAfterEnd ==
    [][\A i \in DOMAIN streams :
          /\ streams[i].stream.ended =>
                /\ streams[i].done
                /\ i \notin Range(trail')
          /\ streams[i].done => streams'[i].done]_vars

\* a poll_next after source i ended probed another source and not i
C5_Witness ==
    \E i, j \in DOMAIN streams :
        /\ streams[i].stream.ended
        /\ streams[i].done
        /\ ~streams[j].done
        /\ Range(trail) = {j}
        /\ Len(got[j]) >= 1

\* C6: progress on an empty group can return at once, and its next step is
\* the return of Empty, with the counter and the group as they were.
C6_ProgressOnEmpty ==
    /\ [](pc = "progress_await" /\ IsEmpty(group) =>
            ENABLED (AwaitNextNone /\ pc' = "idle"))
    /\ [][pc = "progress_await" /\ IsEmpty(group) =>
            /\ pc' = "idle"
            /\ inner' = Append(inner, Ret("progress", "Empty"))
            /\ count' = count
            /\ group' = group]_vars

\* progress was the first call on a new consumer and has returned Empty
C6_Witness ==
    /\ pc = "idle"
    /\ Len(inner) = 2
    /\ inner[1] = Call("progress", 0)
    /\ inner[2] = Ret("progress", "Empty")
    /\ count = 0
    /\ IsEmpty(group)

\* progress is awaiting group.next() and no future of the group is woken:
\* its poll returned Pending
ProgressSuspended ==
    /\ pc = "progress_await"
    /\ ~IsEmpty(group)
    /\ \A k \in DOMAIN group : ~Woken(group[k])

\* C7 as stated: progress never suspends on pipelines that are still
\* pending.
C7_ProgressNeverSuspends == ~ProgressSuspended

\* C7 amended: progress returns only once the group is empty, and then
\* Empty; while the group holds pipelines it stays in its loop, suspended
\* when none of them is ready.
C7_ProgressDrainsGroup ==
    [][pc = "progress_await" =>
          /\ pc' \in {"progress_await", "idle"}
          /\ pc' = "idle" => /\ IsEmpty(group)
                             /\ IsEmpty(group')
                             /\ inner' = Append(inner, Ret("progress", "Empty"))
          /\ ~IsEmpty(group) => pc' = "progress_await"]_vars

\* progress was called with two pipelines in flight and returned after both
\* had completed
C7_Witness ==
    /\ limit = UsizeMax
    /\ pc = "idle"
    /\ Len(inner) = 6
    /\ inner[5] = Call("progress", 0)
    /\ inner[6] = Ret("progress", "Empty")
    /\ admitted = <<1, 2>>
    /\ calls[1] = 1 /\ calls[2] = 1
    /\ IsEmpty(group)

\* C8: a poll of a ForEachFut that is done panics: it returns nothing,
\* leaves the counter as it was, does not invoke the closure and does not
\* run its computation again.
C8_PollAfterDonePanics ==
    [][\A k \in DOMAIN futs :
          (futs[k].done /\ polled'[k] # polled[k]) =>
              /\ last'[k] = "Panic"
              /\ count' = count
              /\ calls' = calls
              /\ counter' = counter
              /\ futs'[k] = futs[k]]_vars

\* a future that ran to completion was polled once more
C8_Witness ==
    \E k \in DOMAIN futs :
        /\ futs[k].done
        /\ calls[k] = 1
        /\ last[k] = "Panic"
        /\ polled[k] >= 2

\* C9: a send suspended at the limit eventually returns, a send returns
\* only by admitting its item, and finish eventually returns.
C9_NoDeadlock ==
    /\ (pc = "send_await") ~> (pc = "idle")
    /\ [][(pc \in SendPcs /\ pc' = "idle")
            => (admitted' = Append(admitted, Len(items)))]_vars
    /\ (pc = "finish_await") ~> (pc = "finished")

\* a send that found the consumer full has been admitted
C9_Witness ==
    /\ limit = 1
    /\ progressed = 0
    /\ pc = "idle"
    /\ admitted = <<1, 2>>
    /\ DOMAIN group = {2}

\* C10: the caller of PassthroughConsumer sees the calls and the results
\* the inner consumer sees.
C10_PassthroughEquivalent == outer = inner

\* C11: under that fairness every source that still holds an item is again
\* and again the one whose item poll_next returns, although all the other
\* sources are ready at every poll.
C11_NoStarvation ==
    \A i \in 1..MaxSources :
        []<>(i \in DOMAIN streams => \/ Winner = i
                                     \/ streams[i].stream.items = <<>>)

\* the item of the third of three endless sources was returned
C11_Witness ==
    /\ Len(streams) = 3
    /\ \A i \in 1..3 : streams[i].stream.endless
    /\ Winner = 3
    /\ trail = <<3>>

\* permits taken: the fetch_add steps of send so far
Increments == Len(admitted) + (IF pc = "send_insert" THEN 1 ELSE 0)

\* permits released: the pipelines that completed (the group dropped them)
Decrements == Len(admitted) - InFlight

\* C12: the counter is the permits taken less the permits released;
\* releases never outnumber the permits taken and the counter never wraps
\* below 0. A step changes the counter only by one: up exactly in the
\* admission step of send, down exactly in the step in which a pipeline
\* completes.
C12_PermitPairing ==
    /\ [](/\ count = Increments - Decrements
          /\ Decrements >= 0
          /\ Decrements <= Increments
          /\ count \in 0..MaxItems)
    /\ [][/\ (count' = count + 1) <=> (pc = "send_add" /\ pc' = "send_insert")
          /\ (count' = count - 1) <=>
                 (\E k \in DOMAIN group : DOMAIN group' = DOMAIN group \ {k})
          /\ count' \in {count - 1, count, count + 1}]_vars

\* two pipelines were admitted, one has completed and released its permit
C12_Witness ==
    /\ Len(admitted) = 2
    /\ DOMAIN group = {2}
    /\ Increments = 2 /\ Decrements = 1
    /\ count = 1

\* C13: with pipelines completing on other workers at any moment, the
\* counter never exceeds the limit and never wraps below 0: between the
\* load and the fetch_add of send the counter can only have fallen below
\* the value the load read, which was below the limit.
C13_LimitUnderInterleaving ==
    /\ count <= limit
    /\ count \in 0..MaxItems
    /\ pc = "send_add" => loaded # None /\ count <= loaded[1] /\ loaded[1] < limit

\* a pipeline completed on a worker between the load and the fetch_add of
\* send: the counter is below what the load read
C13_Witness ==
    /\ pc = "send_add"
    /\ loaded = Some(1)
    /\ count = 0
    /\ limit = 2

\* the sources in the order a scan with the offset r of n sources visits them
CyclicOrder(r, n) == [i \in 1..n |-> ((r + i - 1) % n) + 1]

\* C14: for some offset r, a poll_next visits the sources in the cyclic
\* order r, r+1, ... (mod N), up to the source whose item it returns or,
\* when it returns none, to the last one; it probes each source it visits
\* that had not ended, once, takes no item from a source before the one it
\* returns from, and leaves the sources after that one untouched.
C14_ProbeOrder ==
    [][mres' # None =>
       \E r \in RandomRange(Len(streams)) :
          LET n == Len(streams)
              order == CyclicOrder(r, n)
              item == mres'[1].ready /\ mres'[1].item # None
              Alive(j) == ~streams[j].done
              upto == IF item
                      THEN CHOOSE p \in 1..n : order[p] = trail'[Len(trail')]
                      ELSE n
              visited == SubSeq(order, 1, upto)
              before == IF item THEN Len(trail') - 1 ELSE Len(trail')
          IN  /\ item => trail' # <<>>
              /\ trail' = SelectSeq(visited, Alive)
              /\ \A j \in 1..n :
                    j \notin Range(visited) => streams'[j] = streams[j]
              /\ \A k \in 1..before :
                    streams'[trail'[k]].stream.items
                        = streams[trail'[k]].stream.items
              /\ item =>
                    /\ streams[trail'[Len(trail')]].stream.items # <<>>
                    /\ mres'[1].item
                         = Some(Head(streams[trail'[Len(trail')]]
                                        .stream.items))]_vars

\* a scan of three sources that started at the third, found it pending,
\* wrapped around to the first and returned its item: the second was not
\* probed
C14_Witness ==
    /\ Len(streams) = 3
    /\ trail = <<3, 1>>
    /\ mres # None /\ mres[1].ready /\ mres[1].item # None
    /\ streams[2].stream.items = SourceOf(MaxLen).items
    /\ ~streams[3].done

\* C15: a poll_next that returned no item returned Pending exactly when
\* some source was pending (it has not ended), and the end of the stream
\* exactly when every source has ended, none holding an item.
C15_PendingOrEnd ==
    (mres # None /\ ~(mres[1].ready /\ mres[1].item # None)) =>
        /\ mres[1] \in {Pending, Ready(None)}
        /\ mres[1] = Pending <=> \E j \in DOMAIN streams : ~streams[j].done
        /\ mres[1] = Ready(None) <=>
               \A j \in DOMAIN streams :
                   /\ streams[j].done
                   /\ streams[j].stream.ended
                   /\ streams[j].stream.items = <<>>

\* a scan from the first of three sources found the first two pending and
\* the third ended, and returned Pending
C15_Witness ==
    /\ Len(streams) = 3
    /\ mres = Some(Pending)
    /\ trail = <<1, 2>>
    /\ streams[3].done
    /\ ~streams[1].done /\ ~streams[2].done

\* the state of the pipeline a ForEachFut is
PipelineState(this) ==
    IF this.done THEN "Completed"
    ELSE IF this.fut_t # None THEN "WaitingItem"
    ELSE IF this.fut_b # None THEN "WaitingTransform"
    ELSE "Neither"

Rank(state) ==
    CASE state = "WaitingItem" -> 1
      [] state = "WaitingTransform" -> 2
      [] state = "Completed" -> 3
      [] OTHER -> 0

\* C16: in every step every pipeline stays in its state or moves forward
\* along WaitingItem, WaitingTransform, Completed; a Completed pipeline
\* does not change any more; the closure is invoked once, in the step that
\* leaves WaitingItem and in no other, on the value the item computation
\* resolved to; a Completed pipeline has had its closure invoked.
C16_ForwardOnly ==
    [][\A k \in DOMAIN futs :
          LET a == futs[k]
              b == futs'[k]
              left == PipelineState(a) = "WaitingItem"
                      /\ PipelineState(b) # "WaitingItem"
          IN  /\ Rank(PipelineState(b)) >= Rank(PipelineState(a))
              /\ Rank(PipelineState(b)) > 0
              /\ PipelineState(a) = "Completed" => b = a
              /\ calls'[k] = calls[k] + (IF left THEN 1 ELSE 0)
              /\ left => /\ a.fut_t[1].resolved
                         /\ b.fut_b # None
                         /\ b.fut_b[1].val = a.fut_t[1].val
              /\ PipelineState(b) = "Completed" => calls'[k] = 1]_vars

\* a pipeline went through both waiting states, one poll each, and was
\* polled once more after it completed
C16_Witness ==
    \E k \in DOMAIN futs :
        /\ PipelineState(futs[k]) = "Completed"
        /\ calls[k] = 1
        /\ polled[k] = 3
        /\ last[k] = "Panic"

\* C17: a pipeline holds its item computation exactly while it is in
\* WaitingItem and its closure's computation exactly while it is in
\* WaitingTransform: never both, neither once Completed, exactly one
\* before, and poll never reaches its unreachable!.
C17_HeldOnlyWhileWaiting ==
    \A k \in DOMAIN futs :
        LET this == futs[k]
        IN  /\ this.fut_t # None <=> PipelineState(this) = "WaitingItem"
            /\ this.fut_b # None <=> PipelineState(this) = "WaitingTransform"
            /\ ~(this.fut_t # None /\ this.fut_b # None)
            /\ this.done => this.fut_t = None /\ this.fut_b = None
            /\ ~this.done => (this.fut_t # None) # (this.fut_b # None)
            /\ last[k] # "Unreachable"

\* C18: a poll of a pipeline that has not completed and whose current
\* computation has not resolved returns Pending and changes nothing: not
\* the pipeline, not the counter, and the closure is not invoked.
C18_PendingPollNoEffect ==
    [][\A k \in DOMAIN futs :
          (/\ polled'[k] = polled[k] + 1
           /\ ~futs[k].done
           /\ ~Woken(futs[k])) =>
              /\ last'[k] = "Pending"
              /\ futs' = futs
              /\ count' = count
              /\ calls' = calls
              /\ counter' = counter]_vars

\* a pipeline polled three times that waits on its closure's unresolved
\* computation: at least two of the polls found nothing resolved
C18_Witness ==
    \E k \in DOMAIN futs :
        /\ polled[k] = 3
        /\ PipelineState(futs[k]) = "WaitingTransform"
        /\ ~futs[k].fut_b[1].resolved
        /\ last[k] = "Pending"
        /\ calls[k] = 1
        /\ count = Len(futs)

\* no consumer call is in the middle of a poll step: none is running, or
\* the one that is running is suspended at its await
Quiescent == pc \in {"idle", "finished"} \cup AwaitPcs

\* C19: between poll steps the counter is the number of pipelines in the
\* group (inside send's step it is ahead by one from the fetch_add to the
\* insert); the group never holds a completed pipeline; and a pipeline
\* leaves the group exactly in a step in which its poll returns Ready, the
\* step that releases its permit.
C19_CounterIsGroupSize ==
    /\ [](/\ Quiescent => count = InFlight
          /\ pc = "send_insert" => count = InFlight + 1
          /\ \A k \in DOMAIN group : ~group[k].done)
    /\ [][\A k \in DOMAIN group :
             LET completes ==
                     \E imm \in BOOLEAN :
                         ForEachFutPoll(group[k], count, imm).poll = "Ready"
             IN  k \notin DOMAIN group' =>
                     /\ Woken(group[k]) /\ completes
                     /\ count' = count - 1
                     /\ DOMAIN group' = DOMAIN group \ {k}]_vars

\* send is suspended at the limit with as many pipelines in the group as
\* the counter says, after one pipeline has completed and left the group
C19_Witness ==
    /\ pc = "send_await"
    /\ limit = 2
    /\ count = 2
    /\ DOMAIN group = {2, 3}
    /\ Len(admitted) = 3

\* C20: send suspends only at the limit and with a pipeline in the group,
\* so its await never finds the group empty; while it is suspended no
\* completion passes without resuming it; the completion that resumes it
\* brings the counter below the limit, and from there send goes on to its
\* fetch_add without suspending again.
C20_NoBusyWait ==
    /\ [](pc = "send_await" => count >= limit /\ ~IsEmpty(group))
    /\ [][/\ (pc = "send_await" /\ pc' = "send_await") => count' = count
          /\ (pc = "send_await" /\ pc' # "send_await") =>
                 /\ pc' = "send_loop"
                 /\ count' = count - 1
                 /\ count' < limit
                 /\ \E k \in DOMAIN group : DOMAIN group' = DOMAIN group \ {k}
          /\ (pc = "send_loop" /\ count < limit) =>
                 \/ pc' = "send_loop" /\ count' = count
                 \/ pc' = "send_add"]_vars

\* the second send waited at limit 1 for the first pipeline, was resumed by
\* its completion and is about to admit its item
C20_Witness ==
    /\ limit = 1
    /\ Len(items) = 2
    /\ admitted = <<1>>
    /\ progressed = 0
    /\ IsEmpty(group)
    /\ pc = "send_add"
    /\ count = 0

====
